---- MODULE Spec2Model ----
(***************************************************************************)
(* The Git LFS batch gateway of src/_worker.js as a state machine: one     *)
(* invocation of the exported handler fetch(req, env), with its per-object *)
(* sub-tasks, its signing calls and its calls to the backend.              *)
(*                                                                         *)
(* JavaScript strings are sequences of UTF-16 code units (numbers), so     *)
(* that split, indexOf, slice, endsWith, atob and encodeURIComponent are   *)
(* computed as the code computes them. HTTP methods, operations and error  *)
(* names are only ever compared, and stay TLA+ strings.                    *)
(***************************************************************************)
EXTENDS Integers, Sequences, FiniteSets, TLC

\* ---------------------------------------------------------------- constants
HOMEPAGE == "https://github.com/aibtcdev/git-lfs-s3-proxy"
EXPIRY == 3600
PART_SIZE == 5 * 1024 * 1024

\* Largest number of objects in one batch body.
MaxObjects == 2

\* ------------------------------------------------------------ string values
SP == 32          \* " "
SLASH == 47       \* "/"
COLON == 58       \* ":"
EQ == 61          \* "="
PERCENT == 37     \* "%"

BasicStr == <<66, 97, 115, 105, 99>>                            \* "Basic"
BearerStr == <<66, 101, 97, 114, 101, 114>>                     \* "Bearer"
BatchSuffix == <<47, 111, 98, 106, 101, 99, 116, 115, 47, 98, 97, 116, 99, 104>>  \* "/objects/batch"
AccessKeyIdKey == <<97, 99, 99, 101, 115, 115, 75, 101, 121, 73, 100>>            \* "accessKeyId"
SecretAccessKeyKey == <<115, 101, 99, 114, 101, 116, 65, 99, 99, 101, 115, 115, 75, 101, 121>>  \* "secretAccessKey"
ExpiryKey == <<101, 120, 112, 105, 114, 121>>                   \* "expiry"
RegionKey == <<114, 101, 103, 105, 111, 110>>                   \* "region"
UploadsQuery == <<117, 112, 108, 111, 97, 100, 115, 61>>        \* "uploads="
PartNumberEq == <<112, 97, 114, 116, 78, 117, 109, 98, 101, 114, 61>>   \* "partNumber="
AmpUploadIdEq == <<38, 117, 112, 108, 111, 97, 100, 73, 100, 61>>       \* "&uploadId="
UploadIdEq == <<117, 112, 108, 111, 97, 100, 73, 100, 61>>              \* "uploadId="
Amp == <<38>>                                                   \* "&"
UndefinedStr == <<117, 110, 100, 101, 102, 105, 110, 101, 100>> \* "undefined"

\* ------------------------------------------------- String.prototype methods
\* s.indexOf(c) for a one-unit c: the 0-based place of its first occurrence, or -1.
\* The index of the last occurrence, as s.lastIndexOf(c) gives it.
IndexOfLast(s, c) ==
  IF \E i \in 1..Len(s) : s[i] = c
  THEN (CHOOSE i \in 1..Len(s) : s[i] = c /\ \A j \in (i + 1)..Len(s) : s[j] # c) - 1
  ELSE -1

IndexOf(s, c) ==
  IF \E i \in 1..Len(s) : s[i] = c
  THEN (CHOOSE i \in 1..Len(s) : s[i] = c /\ \A j \in 1..(i - 1) : s[j] # c) - 1
  ELSE -1

\* s.slice(from, to) with 0-based from (inclusive) and to (exclusive), both in range.
Slice(s, from, to) == SubSeq(s, from + 1, to)

\* s.slice(from)
SliceFrom(s, from) == SubSeq(s, from + 1, Len(s))

\* s.split(c) for a one-unit separator c.
RECURSIVE Split(_, _)
Split(s, c) ==
  LET i == IndexOf(s, c)
  IN IF i = -1 THEN <<s>>
     ELSE <<Slice(s, 0, i)>> \o Split(SliceFrom(s, i + 1), c)

\* parts.join(c)
RECURSIVE Join(_, _)
Join(parts, c) ==
  IF Len(parts) = 0 THEN <<>>
  ELSE IF Len(parts) = 1 THEN parts[1]
  ELSE parts[1] \o <<c>> \o Join(Tail(parts), c)

\* s.endsWith(suffix)
EndsWith(s, suffix) ==
  /\ Len(s) >= Len(suffix)
  /\ SubSeq(s, Len(s) - Len(suffix) + 1, Len(s)) = suffix

\* array.slice(1, -2): drop the first element and the last two.
SliceSegments(parts) ==
  IF Len(parts) - 2 > 1 THEN SubSeq(parts, 2, Len(parts) - 2) ELSE <<>>

\* --------------------------------------------------------------- exceptions
\* A thrown value: a Response (thrown by parseAuthorization) or an Error with a
\* name and a message. A message is a sequence of text fragments, and
\* message.includes(x) looks for the fragment x.
ThrownResponse(st) == [kind |-> "Response", status |-> st, name |-> "", message |-> <<>>]
ErrorOf(nm, msg) == [kind |-> "Error", status |-> 0, name |-> nm, message |-> msg]
NoError == [kind |-> "none", status |-> 0, name |-> "", message |-> <<>>]
Includes(msg, x) == \E i \in 1..Len(msg) : msg[i] = x

\* ------------------------------------------------------ atob and TextDecoder
IsB64Unit(c) ==
  \/ (c >= 65 /\ c <= 90) \/ (c >= 97 /\ c <= 122) \/ (c >= 48 /\ c <= 57)
  \/ c = 43 \/ c = 47

\* The 6-bit value of a unit of the base64 alphabet.
Sextet(c) ==
  IF c >= 65 /\ c <= 90 THEN c - 65
  ELSE IF c >= 97 /\ c <= 122 THEN c - 97 + 26
  ELSE IF c >= 48 /\ c <= 57 THEN c - 48 + 52
  ELSE IF c = 43 THEN 62 ELSE 63

\* Step 2 of the forgiving-base64 decode: a length that is a multiple of 4 loses
\* one or two trailing "=".
StripPadding(s) ==
  IF Len(s) > 0 /\ Len(s) % 4 = 0
  THEN IF Len(s) >= 2 /\ s[Len(s)] = EQ /\ s[Len(s) - 1] = EQ
       THEN SubSeq(s, 1, Len(s) - 2)
       ELSE IF s[Len(s)] = EQ THEN SubSeq(s, 1, Len(s) - 1) ELSE s
  ELSE s

RECURSIVE DecodeSextets(_)
DecodeSextets(s) ==
  IF Len(s) >= 4
  THEN LET n == Sextet(s[1]) * 262144 + Sextet(s[2]) * 4096 + Sextet(s[3]) * 64 + Sextet(s[4])
       IN <<n \div 65536, (n \div 256) % 256, n % 256>> \o DecodeSextets(SubSeq(s, 5, Len(s)))
  ELSE IF Len(s) = 3
  THEN LET n == Sextet(s[1]) * 4096 + Sextet(s[2]) * 64 + Sextet(s[3])
       IN <<n \div 1024, (n \div 4) % 256>>
  ELSE IF Len(s) = 2
  THEN LET n == Sextet(s[1]) * 64 + Sextet(s[2]) IN <<n \div 16>>
  ELSE <<>>

\* atob(encoded): the bytes, or an InvalidCharacterError DOMException when the
\* stripped text has length 1 mod 4 or a unit outside the alphabet.
atob(encoded) ==
  LET s == StripPadding(SelectSeq(encoded, LAMBDA c : c \notin {9, 10, 12, 13, 32}))
  IN IF Len(s) % 4 = 1 \/ \E i \in 1..Len(s) : ~IsB64Unit(s[i])
     THEN [threw |-> TRUE, error |-> ErrorOf("InvalidCharacterError", <<"Invalid character">>), bytes |-> <<>>]
     ELSE [threw |-> FALSE, error |-> NoError, bytes |-> DecodeSextets(s)]

\* new TextDecoder().decode(bytes): UTF-8, not fatal. One-byte and two-byte
\* sequences are decoded; any other byte becomes U+FFFD (the inputs of the model
\* hold no three- or four-byte sequence).
RECURSIVE TextDecode(_)
TextDecode(b) ==
  IF Len(b) = 0 THEN <<>>
  ELSE IF b[1] < 128 THEN <<b[1]>> \o TextDecode(Tail(b))
  ELSE IF b[1] >= 194 /\ b[1] <= 223 /\ Len(b) >= 2 /\ b[2] >= 128 /\ b[2] <= 191
  THEN <<(b[1] - 192) * 64 + (b[2] - 128)>> \o TextDecode(SubSeq(b, 3, Len(b)))
  ELSE <<65533>> \o TextDecode(Tail(b))

\* String.prototype.normalize(): NFC. The one composition the inputs of the
\* model can hold is "e" followed by U+0301, composed to U+00E9.
RECURSIVE Normalize(_)
Normalize(s) ==
  IF Len(s) = 0 THEN <<>>
  ELSE IF Len(s) >= 2 /\ s[1] = 101 /\ s[2] = 769
  THEN <<233>> \o Normalize(SubSeq(s, 3, Len(s)))
  ELSE <<s[1]>> \o Normalize(Tail(s))

\* /[\0-\x1F\x7F]/.test(s)
HasControl(s) == \E i \in 1..Len(s) : s[i] <= 31 \/ s[i] = 127

\* ------------------------------------------------------- parseAuthorization
\* The request's Authorization header: hasAuth is FALSE when headers.get gives null.
parseAuthorization(r) ==
  LET none == [threw |-> TRUE, error |-> NoError, user |-> <<>>, pass |-> <<>>]
  IN IF ~r.hasAuth \/ r.auth = <<>>
     THEN [none EXCEPT !.error = ThrownResponse(401)]
     ELSE LET parts == Split(r.auth, SP)
              scheme == parts[1]
              hasEncoded == Len(parts) >= 2 /\ parts[2] # <<>>
          IN IF scheme # BasicStr \/ ~hasEncoded
             THEN [none EXCEPT !.error = ThrownResponse(400)]
             ELSE LET raw == atob(parts[2])
                  IN IF raw.threw
                     THEN [none EXCEPT !.error = raw.error]
                     ELSE LET decoded == Normalize(TextDecode(raw.bytes))
                              index == IndexOf(decoded, COLON)
                          IN IF index = -1 \/ HasControl(decoded)
                             THEN [none EXCEPT !.error = ThrownResponse(400)]
                             ELSE [threw |-> FALSE, error |-> NoError,
                                   user |-> Slice(decoded, 0, index),
                                   pass |-> SliceFrom(decoded, index + 1)]

\* ------------------------------------------------- the handler's outer catch
\* A catch block with no branch for a thrown Response: every thrown value is
\* classified as an Error.
CatchStatusErrorsOnly(error) ==
  IF error.name = "AbortError" THEN 504
  ELSE IF error.name = "TypeError" THEN 400
  ELSE IF Includes(error.message, "NetworkError") THEN 503
  ELSE 500

\* The status of the response the catch block of fetch returns for a thrown value.
CatchStatus(error) ==
  IF error.kind = "Response" THEN error.status
  ELSE IF error.name = "AbortError" THEN 504
  ELSE IF error.name = "TypeError" THEN 400
  ELSE IF Includes(error.message, "NetworkError") THEN 503
  ELSE 500

\* ---------------------------------------- decodeURIComponent, encodeURIComponent
IsHex(c) == (c >= 48 /\ c <= 57) \/ (c >= 65 /\ c <= 70) \/ (c >= 97 /\ c <= 102)
HexVal(c) == IF c <= 57 THEN c - 48 ELSE IF c <= 70 THEN c - 55 ELSE c - 87
HexDigit(n) == IF n < 10 THEN 48 + n ELSE 55 + n

\* decodeURIComponent(s): every %XY becomes the unit it escapes; a "%" that is
\* not followed by two hex digits, or that escapes a byte outside ASCII on its
\* own, throws URIError.
RECURSIVE decodeURIComponent(_)
decodeURIComponent(s) ==
  IF Len(s) = 0 THEN [threw |-> FALSE, value |-> <<>>]
  ELSE IF s[1] # PERCENT
  THEN LET rest == decodeURIComponent(Tail(s))
       IN [threw |-> rest.threw, value |-> <<s[1]>> \o rest.value]
  ELSE IF Len(s) >= 3 /\ IsHex(s[2]) /\ IsHex(s[3]) /\ HexVal(s[2]) * 16 + HexVal(s[3]) < 128
  THEN LET rest == decodeURIComponent(SubSeq(s, 4, Len(s)))
       IN [threw |-> rest.threw, value |-> <<HexVal(s[2]) * 16 + HexVal(s[3])>> \o rest.value]
  ELSE [threw |-> TRUE, value |-> <<>>]

\* The units encodeURIComponent leaves alone: A-Z a-z 0-9 - _ . ! ~ * ' ( )
IsUnreserved(c) ==
  \/ (c >= 65 /\ c <= 90) \/ (c >= 97 /\ c <= 122) \/ (c >= 48 /\ c <= 57)
  \/ c \in {45, 95, 46, 33, 126, 42, 39, 40, 41}

EscapeByte(b) == <<PERCENT, HexDigit(b \div 16), HexDigit(b % 16)>>

\* encodeURIComponent(s): every other unit is escaped as the bytes of its UTF-8
\* form (one byte below U+0080, two below U+0800; the model holds no higher unit).
RECURSIVE encodeURIComponent(_)
encodeURIComponent(s) ==
  IF Len(s) = 0 THEN <<>>
  ELSE (IF IsUnreserved(s[1]) THEN <<s[1]>>
        ELSE IF s[1] < 128 THEN EscapeByte(s[1])
        ELSE EscapeByte(192 + (s[1] \div 64)) \o EscapeByte(128 + (s[1] % 64)))
       \o encodeURIComponent(Tail(s))

\* path.split("/").map(encodeURIComponent).join("/")
EncodePath(path) ==
  LET parts == Split(path, SLASH)
  IN Join([i \in 1..Len(parts) |-> encodeURIComponent(parts[i])], SLASH)

\* ------------------------------------------------------------------- sign
\* A URL as the record of its parts. signerExpires is the X-Amz-Expires query
\* parameter of the request handed to the signer, 0 when the request has none.
NoUrl ==
  [host |-> <<>>, path |-> <<>>, query |-> <<>>, method |-> "", accessKeyId |-> <<>>,
   secretAccessKey |-> <<>>, signerExpires |-> 0]

\* sign(s3, bucket, path, method, query): the URL https://bucket/encodedPath?query
\* with the signature of the client s3 (its accessKeyId and secretAccessKey).
sign(s3, bucket, path, method, query) ==
  [host |-> bucket, path |-> EncodePath(path), query |-> query, method |-> method,
   accessKeyId |-> s3[AccessKeyIdKey], secretAccessKey |-> s3[SecretAccessKeyKey],
   signerExpires |-> 0]

\* What a failing s3.sign throws.
SignError == ErrorOf("TypeError", <<"Invalid URL">>)

\* The decimal text of a part number below 100.
NumText(n) == IF n < 10 THEN <<48 + n>> ELSE <<48 + (n \div 10), 48 + (n % 10)>>

\* getSignedUrlForPart(s3, bucket, key, uploadId, partNumber)
getSignedUrlForPart(s3, bucket, key, uploadId, partNumber) ==
  sign(s3, bucket, key, "PUT",
       PartNumberEq \o NumText(partNumber) \o AmpUploadIdEq \o uploadId \o Amp)

\* getSignedUrlForCompletion(s3, bucket, key, uploadId): a signed URL, no request.
getSignedUrlForCompletion(s3, bucket, key, uploadId) ==
  sign(s3, bucket, key, "POST", UploadIdEq \o uploadId \o Amp)

\* ----------------------------------------------------- targeting (the path)
\* The loop over the path segments: the leading segments with "=" are written
\* into s3Options, and bucketIdx counts them.
RECURSIVE ParseSegments(_, _, _)
ParseSegments(segments, s3Options, bucketIdx) ==
  IF bucketIdx >= Len(segments)
  THEN [threw |-> FALSE, s3Options |-> s3Options, bucketIdx |-> bucketIdx]
  ELSE LET segment == segments[bucketIdx + 1]
           sliceIdx == IndexOf(segment, EQ)
       IN IF sliceIdx = -1
          THEN [threw |-> FALSE, s3Options |-> s3Options, bucketIdx |-> bucketIdx]
          ELSE LET key == decodeURIComponent(Slice(segment, 0, sliceIdx))
                   val == decodeURIComponent(SliceFrom(segment, sliceIdx + 1))
               IN IF key.threw \/ val.threw
                  THEN [threw |-> TRUE, s3Options |-> s3Options, bucketIdx |-> bucketIdx]
                  ELSE ParseSegments(
                         segments,
                         [k \in DOMAIN s3Options \cup {key.value} |->
                            IF k = key.value THEN val.value ELSE s3Options[k]],
                         bucketIdx + 1)

\* url.pathname.split("/").slice(1, -2)
Segments(pathname) == SliceSegments(Split(pathname, SLASH))

\* The bucket taken as every segment from bucketIdx on, joined by "/".
BucketOfJoined(segments, bucketIdx) ==
  IF bucketIdx + 1 <= Len(segments)
  THEN Join(SubSeq(segments, bucketIdx + 1, Len(segments)), SLASH)
  ELSE UndefinedStr

\* segments[bucketIdx] as it reads inside a template string.
BucketOf(segments, bucketIdx) ==
  IF bucketIdx + 1 <= Len(segments) THEN segments[bucketIdx + 1] ELSE UndefinedStr

\* segments.slice(bucketIdx + 1).join("/")
PrefixOf(segments, bucketIdx) ==
  IF bucketIdx + 2 <= Len(segments)
  THEN Join(SubSeq(segments, bucketIdx + 2, Len(segments)), SLASH)
  ELSE <<>>

\* `${prefix}/${oid}`
KeyOf(prefix, oid) == prefix \o <<SLASH>> \o oid

\* The object params of the handler: declared empty and never written.
params == [k \in {} |-> 0]

\* params.expiry || env.EXPIRY || EXPIRY, where 0 stands for undefined.
ExpiresIn(e) ==
  LET paramsExpiry == IF ExpiryKey \in DOMAIN params THEN params[ExpiryKey] ELSE 0
      envExpiry == IF e.hasEXPIRY THEN e.EXPIRY ELSE 0
  IN IF paramsExpiry # 0 THEN paramsExpiry
     ELSE IF envExpiry # 0 THEN envExpiry
     ELSE EXPIRY

\* ------------------------------------------------------- per-object results
NoMultipart == [partSize |-> 0, partCount |-> 0, uploadId |-> <<>>]

\* An entry of the response's objects array. fields is the set of its keys.
NoEntry ==
  [oid |-> <<>>, size |-> 0, fields |-> {}, actions |-> <<>>,
   multipart |-> NoMultipart, error |-> <<>>]

\* A strategy choice that looks at the size alone.
UseMultipartAnyOperation(op, size) == size > PART_SIZE

\* operation === "upload" && size > PART_SIZE
UseMultipart(op, size) == op = "upload" /\ size > PART_SIZE

\* operation === "upload" ? "PUT" : "GET"
SingleMethod(op) == IF op = "upload" THEN "PUT" ELSE "GET"

\* Math.ceil(size / PART_SIZE)
PartCount(size) == (size + PART_SIZE - 1) \div PART_SIZE

\* The entry returned on the single-URL path. An action's partNumber is 0 when
\* the action has no such key.
SingleEntry(obj, op, href, expires) ==
  [oid |-> obj.oid, size |-> obj.size,
   fields |-> {"oid", "size", "authenticated", "actions"},
   actions |-> <<[key |-> op, href |-> href,
                  contentType |-> IF op = "upload" THEN "application/octet-stream" ELSE "",
                  expires_in |-> expires, partNumber |-> 0]>>,
   multipart |-> NoMultipart, error |-> <<>>]

\* The entry returned on the multipart path: the upload actions in the order of
\* partUrls, each tagged index + 1, then the verify action.
MultipartEntry(obj, uploadId, partUrls, completeUrl, partCount, expires) ==
  [oid |-> obj.oid, size |-> obj.size,
   fields |-> {"oid", "size", "authenticated", "actions", "multipart"},
   actions |->
     [n \in 1..Len(partUrls) |->
        [key |-> "upload", href |-> partUrls[n], contentType |-> "application/octet-stream",
         expires_in |-> expires, partNumber |-> n]]
     \o <<[key |-> "verify", href |-> completeUrl, contentType |-> "application/xml",
           expires_in |-> expires, partNumber |-> 0]>>,
   multipart |-> [partSize |-> PART_SIZE, partCount |-> partCount, uploadId |-> uploadId],
   error |-> <<>>]

\* An error entry that keeps an (empty) actions key beside the error.
ErrorEntryWithActions(obj, error) ==
  [oid |-> obj.oid, size |-> obj.size, fields |-> {"oid", "size", "actions", "error"},
   actions |-> <<>>, multipart |-> NoMultipart,
   error |-> IF error.message # <<>> THEN error.message
             ELSE <<"Internal server error processing object">>]

\* The entry returned by the per-object catch:
\* error.message || "Internal server error processing object".
ErrorEntry(obj, error) ==
  [oid |-> obj.oid, size |-> obj.size, fields |-> {"oid", "size", "error"},
   actions |-> <<>>, multipart |-> NoMultipart,
   error |-> IF error.message # <<>> THEN error.message
             ELSE <<"Internal server error processing object">>]

\* The catch block of handleMultipartUpload: the error it throws in place of
\* the one it caught.
HandleMultipartCatch(error) ==
  IF error.name = "AbortError"
  THEN ErrorOf("Error", <<"Multipart upload initialization timed out">>)
  ELSE IF Includes(error.message, "AccessDenied")
  THEN ErrorOf("Error", <<"Access denied. Check R2 credentials and permissions.">>)
  ELSE IF Includes(error.message, "NoSuchBucket")
  THEN ErrorOf("Error", <<"R2 bucket not found. Check bucket name and region.">>)
  ELSE IF Includes(error.message, "NetworkError")
  THEN ErrorOf("Error", <<"Network error. Check your internet connection and try again.">>)
  ELSE ErrorOf("Error", <<"Failed to initialize multipart upload, unknown error: ">>
                         \o error.message)

\* --------------------------------------------- the fetch call of the initiate
\* What a call of fetch settles with: a Response (its ok flag, its status as
\* text, its body as fragments, the <UploadId> element of the body) or, with
\* failed, a rejection.
ResponseOf(ok, statusText, body, hasUploadId, uploadId) ==
  [failed |-> FALSE, ok |-> ok, statusText |-> statusText, body |-> body,
   hasUploadId |-> hasUploadId, uploadId |-> uploadId]

\* The Response the catch block of the handler builds for a thrown Error.
CatchResponse(error) ==
  LET st == CatchStatus(error)
  IN IF st = 504 THEN ResponseOf(FALSE, "504", <<"Request timed out">>, FALSE, <<>>)
     ELSE IF st = 400 THEN ResponseOf(FALSE, "400", <<"Bad request format">>, FALSE, <<>>)
     ELSE IF st = 503 THEN ResponseOf(FALSE, "503", <<"Network error occurred">>, FALSE, <<>>)
     ELSE ResponseOf(FALSE, "500", <<"Internal server error">>, FALSE, <<>>)

\* The handler called with a string for req: req.url is undefined, new URL(undefined)
\* throws TypeError inside the try, and the catch block answers.
HandlerOnString == CatchResponse(ErrorOf("TypeError", <<"Invalid URL">>))

\* What the storage backend may answer to a multipart-initiate POST, and a
\* transport failure.
UploadId1 == <<105, 100, 49>>     \* "id1"
BackendResponses ==
  { ResponseOf(TRUE, "200", <<"<UploadId>", "id1", "</UploadId>">>, TRUE, UploadId1),
    ResponseOf(TRUE, "200", <<"<UploadId>", "</UploadId>">>, TRUE, <<>>),
    ResponseOf(TRUE, "200", <<"<Error/>">>, FALSE, <<>>),
    ResponseOf(FALSE, "403", <<"AccessDenied">>, FALSE, <<>>),
    [ResponseOf(FALSE, "", <<>>, FALSE, <<>>) EXCEPT !.failed = TRUE] }

\* A request put on the network.
BackendRequest(method, url) == [method |-> method, url |-> url]

\* A call that goes to the platform's fetch and is sent again by the handler
\* chained on it.
InitiateFetchResend(encodedUrl) ==
  [sent |-> <<BackendRequest("POST", encodedUrl), BackendRequest("POST", encodedUrl)>>,
   responses |-> BackendResponses]

\* The call fetch(encodedUrl, {method: "POST", ...}) inside initiateMultipartUpload.
\* The name fetch is bound by the module's own declaration
\* `async function fetch(req, env)`, which shadows the platform's fetch in the
\* whole module: the callee is the handler, req is the URL string, and nothing
\* goes to the network. sent lists the requests put on the network by the call,
\* responses what the call may settle with.
InitiateFetch(encodedUrl) ==
  [sent |-> <<>>, responses |-> {HandlerOnString}]

\* ------------------------------------------------------------------- inputs
Methods == {"GET", "POST", "PUT"}

\* "/" followed by the segments joined by "/".
PathOf(segs) == <<SLASH>> \o Join(segs, SLASH)

SegB == <<98>>                               \* "b"
SegP == <<112>>                              \* "p"
SegQ == <<113>>                              \* "q"
SegObjects == <<111, 98, 106, 101, 99, 116, 115>>   \* "objects"
SegBatch == <<98, 97, 116, 99, 104>>                \* "batch"
SegRegion == RegionKey \o <<EQ, 120>>               \* "region=x"
SegExpiry == ExpiryKey \o <<EQ, 51, 48>>            \* "expiry=30"
SegKV == <<107, EQ, 118>>                           \* "k=v"
SegAccess == AccessKeyIdKey \o <<EQ, 122>>          \* "accessKeyId=z"
SegBadEscape == <<PERCENT, EQ, 120>>                \* "%=x"

BatchPathnames ==
  { PathOf(<<SegObjects, SegBatch>>),
    PathOf(<<SegB, SegObjects, SegBatch>>),
    PathOf(<<SegB, SegP, SegQ, SegObjects, SegBatch>>),
    PathOf(<<SegRegion, SegB, SegKV, SegObjects, SegBatch>>),
    PathOf(<<SegExpiry, SegB, SegObjects, SegBatch>>),
    PathOf(<<SegAccess, SegB, SegObjects, SegBatch>>),
    PathOf(<<SegBadEscape, SegB, SegObjects, SegBatch>>) }

Pathnames ==
  BatchPathnames \cup
  { <<SLASH>>,
    PathOf(<<SegB>>),
    PathOf(<<SegB, SegObjects, SegBatch, <<>> >>),
    PathOf(<<SegB, SegObjects>>) }

\* Authorization header values (the payloads are base64 of the text named).
AuthBearer == BearerStr \o <<SP, 100, 84, 112, 119>>              \* "Bearer dTpw"
AuthNoPayload == BasicStr                                         \* "Basic"
AuthEmptyPayload == BasicStr \o <<SP>>                            \* "Basic "
AuthBadBase64 == BasicStr \o <<SP, 100, 84, 112, 119, 33>>        \* "Basic dTpw!"
AuthNoColon == BasicStr \o <<SP, 100, 88, 65, 61>>                \* "up"
AuthControl == BasicStr \o <<SP, 100, 84, 111, 66, 99, 65, 61, 61>>   \* "u:\x01p"
AuthDel == BasicStr \o <<SP, 100, 88, 56, 54, 99, 65, 61, 61>>    \* "u\x7F:p"
AuthUP == BasicStr \o <<SP, 100, 84, 112, 119>>                   \* "u:p"
AuthABC == BasicStr \o <<SP, 89, 84, 112, 105, 79, 109, 77, 61>>  \* "a:b:c"
AuthEmptyUser == BasicStr \o <<SP, 79, 110, 65, 61>>              \* ":p"
AuthCombining == BasicStr \o <<SP, 90, 99, 121, 66, 79, 110, 65, 61>>  \* "e\u0301:p"

AuthValues ==
  { AuthBearer, AuthNoPayload, AuthEmptyPayload, AuthBadBase64, AuthNoColon,
    AuthControl, AuthDel, AuthUP, AuthABC, AuthEmptyUser, AuthCombining }

Requests ==
  [method : Methods, pathname : Pathnames, hasAuth : {TRUE}, auth : AuthValues]
  \cup [method : Methods, pathname : Pathnames, hasAuth : {FALSE}, auth : {<<>>}]

\* env.EXPIRY: unset, or a number of seconds.
Envs == {[hasEXPIRY |-> FALSE, EXPIRY |-> 0], [hasEXPIRY |-> TRUE, EXPIRY |-> 60]}

OidA == <<97>>    \* "a"
OidB == <<98>>    \* "b"
OidC == <<99>>    \* "c"

\* The objects a batch body is made of: the sizes around the part size and
\* its double, and one oid that occurs with two sizes.
ObjectPool ==
  { [oid |-> OidA, size |-> 0],
    [oid |-> OidA, size |-> PART_SIZE + 1],
    [oid |-> OidB, size |-> PART_SIZE],
    [oid |-> OidB, size |-> 2 * PART_SIZE],
    [oid |-> OidC, size |-> 2 * PART_SIZE + 1] }

\* A null in the objects array (size -1 marks it).
NullObject == [oid |-> <<>>, size |-> -1]

SeqsUpTo(S, n) == UNION {[1..k -> S] : k \in 0..n}

\* What req.json() may give: a body with an operation and an objects array, a
\* text that is no JSON, JSON without an objects array, or an objects array
\* that holds a null.
Bodies ==
  [kind : {"ok"}, operation : {"upload", "download"}, objects : SeqsUpTo(ObjectPool, MaxObjects)]
  \cup [kind : {"notjson", "noobjects"}, operation : {"upload"}, objects : {<<>>}]
  \cup [kind : {"ok"}, operation : {"upload"}, objects : {<<NullObject>>}]

\* ---------------------------------------------------------------- the state
VARIABLES
  req,          \* the request: method, pathname, Authorization header
  env,          \* the environment bindings
  pc,           \* the handler's position: "start", "body", "objects", "done"
  status,       \* the status of the response, 0 until there is one
  allow,        \* the Allow header of the response, "" if none
  location,     \* the Location header of the response, "" if none
  s3Options,    \* the options the AwsClient is built from
  bucket,       \* the local bucket
  prefix,       \* the local prefix
  expires_in,   \* the local expires_in
  body,         \* what req.json() gave: kind "unread" until it is read
  tasks,        \* the sub-task of each object
  finished,     \* the indices of the sub-tasks in the order they settled
  response      \* the objects array of the response body

vars ==
  <<req, env, pc, status, allow, location, s3Options, bucket, prefix, expires_in,
    body, tasks, finished, response>>

\* A call of sign, as logged by a sub-task.
SignCall(b, path, method, query) ==
  [bucket |-> b, path |-> path, method |-> method, query |-> query]

\* A sub-task: its position ("done" once its promise is fulfilled with entry,
\* "rejected" once it is rejected with thrown), the sign calls it made, the
\* requests it put on the network, and the locals of handleMultipartUpload.
\* initiateFailed records that initiateMultipartUpload threw after its fetch
\* call settled.
NewTask(position, calls) ==
  [pc |-> position, signs |-> calls, sent |-> <<>>, initUrl |-> NoUrl,
   uploadId |-> <<>>, partCount |-> 0, partUrls |-> <<>>, pending |-> {},
   initiateFailed |-> FALSE, entry |-> NoEntry, thrown |-> NoError]

Init ==
  /\ req \in Requests
  /\ env \in Envs
  /\ pc = "start"
  /\ status = 0
  /\ allow = ""
  /\ location = ""
  /\ s3Options = [k \in {} |-> <<>>]
  /\ bucket = <<>>
  /\ prefix = <<>>
  /\ expires_in = 0
  /\ body = [kind |-> "unread", operation |-> "", objects |-> <<>>]
  /\ tasks = <<>>
  /\ finished = <<>>
  /\ response = <<>>

\* ------------------------------------------------------------------ routing
Answer(st, al, loc) ==
  [next |-> "done", status |-> st, allow |-> al, location |-> loc,
   s3Options |-> [k \in {} |-> <<>>], bucket |-> <<>>, prefix |-> <<>>, expires_in |-> 0]

\* A routing that looks at the method before the path suffix.
RouteMethodFirst(r) ==
  IF r.pathname = <<SLASH>>
  THEN IF r.method = "GET" THEN Answer(302, "", HOMEPAGE) ELSE Answer(405, "GET", "")
  ELSE IF r.method # "POST" THEN Answer(405, "POST", "")
  ELSE IF ~EndsWith(r.pathname, BatchSuffix) THEN Answer(404, "", "")
  ELSE [Answer(0, "", "") EXCEPT !.next = "auth"]

\* The routing at the head of the handler: the response it returns, or next =
\* "auth" when the request is a POST to a path ending in /objects/batch.
Route(r) ==
  IF r.pathname = <<SLASH>>
  THEN IF r.method = "GET" THEN Answer(302, "", HOMEPAGE) ELSE Answer(405, "GET", "")
  ELSE IF ~EndsWith(r.pathname, BatchSuffix) THEN Answer(404, "", "")
  ELSE IF r.method # "POST" THEN Answer(405, "POST", "")
  ELSE [Answer(0, "", "") EXCEPT !.next = "auth"]

\* The handler up to `await req.json()`: the response it returns, or the locals
\* it goes on with (next = "body").
Prologue(r, e) ==
  IF Route(r).next = "done" THEN Route(r)
  ELSE LET a == parseAuthorization(r)
       IN IF a.threw THEN Answer(CatchStatus(a.error), "", "")
          ELSE LET segments == Segments(r.pathname)
                   parsed == ParseSegments(
                               segments,
                               [k \in {AccessKeyIdKey, SecretAccessKeyKey} |->
                                  IF k = AccessKeyIdKey THEN a.user ELSE a.pass],
                               0)
               IN IF parsed.threw
                  THEN Answer(CatchStatus(ErrorOf("URIError", <<"URI malformed">>)), "", "")
                  ELSE [next |-> "body", status |-> 0, allow |-> "", location |-> "",
                        s3Options |-> parsed.s3Options,
                        bucket |-> BucketOf(segments, parsed.bucketIdx),
                        prefix |-> PrefixOf(segments, parsed.bucketIdx),
                        expires_in |-> ExpiresIn(e)]

Start ==
  /\ pc = "start"
  /\ LET p == Prologue(req, env)
     IN /\ pc' = p.next
        /\ status' = p.status
        /\ allow' = p.allow
        /\ location' = p.location
        /\ s3Options' = p.s3Options
        /\ bucket' = p.bucket
        /\ prefix' = p.prefix
        /\ expires_in' = p.expires_in
  /\ UNCHANGED <<req, env, body, tasks, finished, response>>

\* ------------------------------------------------------- the body, the fan-out
\* The callback of objects.map, run for one object up to its first await. A null
\* element throws TypeError where the parameter is destructured, outside the
\* try. Otherwise the callback reaches the sign call of the single-URL path, or,
\* through handleMultipartUpload and initiateMultipartUpload, the sign call of
\* the initiate.
StartTask(op, obj, b, pfx) ==
  IF obj = NullObject
  THEN [NewTask("rejected", <<>>) EXCEPT
          !.thrown = ErrorOf("TypeError", <<"Cannot destructure property 'oid'">>)]
  ELSE IF UseMultipart(op, obj.size)
  THEN NewTask("sign_init", <<SignCall(b, KeyOf(pfx, obj.oid), "POST", UploadsQuery)>>)
  ELSE NewTask("sign_single", <<SignCall(b, KeyOf(pfx, obj.oid), SingleMethod(op), <<>>)>>)

\* `await req.json()` settles. A text that is no JSON throws SyntaxError; a
\* body without objects throws TypeError at objects.map; both reach the outer
\* catch. Otherwise every object's callback runs up to its first await.
ReadBody ==
  /\ pc = "body"
  /\ \E b \in Bodies :
       /\ body' = b
       /\ IF b.kind = "ok"
          THEN /\ pc' = "objects"
               /\ tasks' = [i \in 1..Len(b.objects) |->
                              StartTask(b.operation, b.objects[i], bucket, prefix)]
               /\ UNCHANGED status
          ELSE /\ pc' = "done"
               /\ status' = CatchStatus(
                    IF b.kind = "notjson"
                    THEN ErrorOf("SyntaxError", <<"Unexpected token">>)
                    ELSE ErrorOf("TypeError", <<"Cannot read properties of undefined (reading 'map')">>))
               /\ UNCHANGED tasks
  /\ UNCHANGED <<req, env, allow, location, s3Options, bucket, prefix, expires_in,
                 finished, response>>

\* A callback without the per-object catch: the sub-task's promise is rejected.
PerObjectRethrow(t, obj, error) ==
  [t EXCEPT !.pc = "rejected", !.thrown = error]

\* The per-object catch: the sub-task's promise is fulfilled with an error entry.
PerObjectCatch(t, obj, error) ==
  [t EXCEPT !.pc = "done", !.entry = ErrorEntry(obj, error)]

\* The error thrown by the single-URL path reaches the per-object catch.
FailSingle(t, obj, error) == PerObjectCatch(t, obj, error)

\* A catch that only logs a failure of the initiate's fetch and goes on to the
\* parts with the upload id it has, which is undefined.
FailMultipartContinue(t, obj, error) ==
  IF t.pc # "fetch_init"
  THEN PerObjectCatch(t, obj, HandleMultipartCatch(error))
  ELSE LET n == PartCount(obj.size)
       IN [t EXCEPT !.pc = "sign_parts", !.uploadId = UndefinedStr, !.partCount = n,
                    !.partUrls = [j \in 1..n |-> NoUrl], !.pending = 1..n,
                    !.signs = t.signs \o
                      [j \in 1..n |->
                         SignCall(bucket, KeyOf(prefix, obj.oid), "PUT",
                           PartNumberEq \o NumText(j) \o AmpUploadIdEq \o UndefinedStr \o Amp)]]

\* The error reaches the catch of handleMultipartUpload, and what that throws
\* reaches the per-object catch.
FailMultipart(t, obj, error) == PerObjectCatch(t, obj, HandleMultipartCatch(error))

\* The sub-task t of object obj after its pending sign call settled: ok or
\* thrown. k is the part whose call settled when the task is signing parts.
AfterSign(t, obj, ok, k) ==
  LET key == KeyOf(prefix, obj.oid)
      op == body.operation
  IN CASE t.pc = "sign_single" ->
            IF ok
            THEN [t EXCEPT !.pc = "done",
                           !.entry = SingleEntry(obj, op,
                                       sign(s3Options, bucket, key, SingleMethod(op), <<>>),
                                       expires_in)]
            ELSE FailSingle(t, obj, SignError)
       [] t.pc = "sign_init" ->
            IF ok
            THEN LET url == sign(s3Options, bucket, key, "POST", UploadsQuery)
                 IN [t EXCEPT !.pc = "fetch_init", !.initUrl = url,
                              !.sent = t.sent \o InitiateFetch(url).sent]
            ELSE FailMultipart(t, obj, SignError)
       [] t.pc = "sign_parts" ->
            IF ok
            THEN LET urls == [t.partUrls EXCEPT
                                ![k] = getSignedUrlForPart(s3Options, bucket, key, t.uploadId, k)]
                     left == t.pending \ {k}
                 IN IF left = {}
                    THEN [t EXCEPT !.pc = "sign_complete", !.partUrls = urls, !.pending = left,
                                   !.signs = Append(t.signs,
                                               SignCall(bucket, key, "POST",
                                                        UploadIdEq \o t.uploadId \o Amp))]
                    ELSE [t EXCEPT !.partUrls = urls, !.pending = left]
            ELSE FailMultipart(t, obj, SignError)
       [] t.pc = "sign_complete" ->
            IF ok
            THEN [t EXCEPT !.pc = "done",
                           !.entry = MultipartEntry(obj, t.uploadId, t.partUrls,
                                       getSignedUrlForCompletion(s3Options, bucket, key, t.uploadId),
                                       t.partCount, expires_in)]
            ELSE FailMultipart(t, obj, SignError)
       [] OTHER -> t

\* The sub-task t of object obj after the fetch call of the initiate settled
\* with r: the rest of initiateMultipartUpload, then partCount and the fan-out
\* of the part-signing calls.
AfterFetch(t, obj, r) ==
  LET f == [t EXCEPT !.initiateFailed = TRUE]
  IN
  IF r.failed
  THEN FailMultipart(f, obj,
         ErrorOf("TypeError", <<"Cannot read properties of undefined (reading 'text')">>))
  ELSE IF ~r.ok
  THEN FailMultipart(f, obj,
         ErrorOf("Error", <<"R2 responded with status ", r.statusText, ": ">> \o r.body))
  ELSE IF ~r.hasUploadId
  THEN FailMultipart(f, obj,
         ErrorOf("TypeError", <<"Cannot read properties of null (reading '1')">>))
  ELSE IF r.uploadId = <<>>
  THEN FailMultipart(f, obj, ErrorOf("Error", <<"Failed to extract UploadId from R2 response">>))
  ELSE LET n == PartCount(obj.size)
           key == KeyOf(prefix, obj.oid)
       IN [t EXCEPT !.pc = "sign_parts", !.uploadId = r.uploadId, !.partCount = n,
                    !.partUrls = [j \in 1..n |-> NoUrl], !.pending = 1..n,
                    !.signs = t.signs \o
                      [j \in 1..n |->
                         SignCall(bucket, key, "PUT",
                           PartNumberEq \o NumText(j) \o AmpUploadIdEq \o r.uploadId \o Amp)]]

\* The parts whose sign call may settle next.
PartChoices(t) == IF t.pc = "sign_parts" THEN t.pending ELSE {0}

Settled(t) == t.pc \in {"done", "rejected"}

\* A pending call of s3.sign of sub-task i settles.
SignReturns(i) ==
  /\ pc = "objects"
  /\ tasks[i].pc \in {"sign_single", "sign_init", "sign_parts", "sign_complete"}
  /\ \E ok \in BOOLEAN, k \in PartChoices(tasks[i]) :
       tasks' = [tasks EXCEPT ![i] = AfterSign(tasks[i], body.objects[i], ok, k)]
  /\ finished' = IF Settled(tasks'[i]) THEN Append(finished, i) ELSE finished
  /\ UNCHANGED <<req, env, pc, status, allow, location, s3Options, bucket, prefix,
                 expires_in, body, response>>

\* The fetch call of sub-task i's initiate settles.
FetchReturns(i) ==
  /\ pc = "objects"
  /\ tasks[i].pc = "fetch_init"
  /\ \E r \in InitiateFetch(tasks[i].initUrl).responses :
       tasks' = [tasks EXCEPT ![i] = AfterFetch(tasks[i], body.objects[i], r)]
  /\ finished' = IF Settled(tasks'[i]) THEN Append(finished, i) ELSE finished
  /\ UNCHANGED <<req, env, pc, status, allow, location, s3Options, bucket, prefix,
                 expires_in, body, response>>

\* A collection that takes the entries in the order the sub-tasks settled in.
CollectInSettleOrder(ts, order) == [i \in 1..Len(ts) |-> ts[order[i]].entry]

\* Promise.all over the sub-tasks: the entries in the order of the request.
\* order is the order the sub-tasks settled in.
Collect(ts, order) == [i \in 1..Len(ts) |-> ts[i].entry]

\* A join that is fulfilled as soon as one sub-task is.
AnyFulfilled(ts) == \E i \in 1..Len(ts) : ts[i].pc = "done"

\* Promise.all is fulfilled once every promise it was given is fulfilled.
AllFulfilled(ts) == \A i \in 1..Len(ts) : ts[i].pc = "done"

\* Promise.all settles and the handler answers: rejected by the first sub-task
\* that is rejected, which the outer catch turns into a response; fulfilled
\* once every sub-task is, and then the 200 response with the collected entries.
Respond ==
  /\ pc = "objects"
  /\ pc' = "done"
  /\ IF \E i \in 1..Len(tasks) : tasks[i].pc = "rejected"
     THEN /\ status' = CatchStatus(
               tasks[CHOOSE i \in 1..Len(tasks) : tasks[i].pc = "rejected"].thrown)
          /\ UNCHANGED response
     ELSE /\ AllFulfilled(tasks)
          /\ status' = 200
          /\ response' = Collect(tasks, finished)
  /\ UNCHANGED <<req, env, allow, location, s3Options, bucket, prefix, expires_in,
                 body, tasks, finished>>

Next ==
  \/ Start
  \/ ReadBody
  \/ \E i \in 1..Len(tasks) : SignReturns(i)
  \/ \E i \in 1..Len(tasks) : FetchReturns(i)
  \/ Respond

Spec == Init /\ [][Next]_vars

\* ------------------------------------------------ a call that never returns
\* An accepted batch request with credentials u:p on the bucket b.
StallRequest ==
  [method |-> "POST", pathname |-> PathOf(<<SegB, SegObjects, SegBatch>>),
   hasAuth |-> TRUE, auth |-> AuthUP]

InitStall == Init /\ req = StallRequest /\ env = [hasEXPIRY |-> FALSE, EXPIRY |-> 0]

\* Once the sub-tasks exist, the join is taken when it can be, every pending
\* sign call settles, and the fetch call of the initiate settles for every
\* sub-task but the first: that one call may stay pending for ever.
SpecStall ==
  /\ InitStall
  /\ [][Next]_vars
  /\ WF_vars(Respond)
  /\ \A i \in 1..MaxObjects : WF_vars(i <= Len(tasks) /\ SignReturns(i))
  /\ \A i \in 2..MaxObjects : WF_vars(i <= Len(tasks) /\ FetchReturns(i))

\* ================================================================== claims
\* The request is a POST to a path ending in /objects/batch.
BatchPost == req.method = "POST" /\ EndsWith(req.pathname, BatchSuffix)

\* The body was read as JSON with an objects array of {oid, size} objects.
BodyAccepted ==
  /\ body.kind = "ok"
  /\ \A i \in 1..Len(body.objects) : body.objects[i] # NullObject

\* The handler answered 200 to a batch.
Answered200 == pc = "done" /\ status = 200

HasActions(e) == "actions" \in e.fields
HasError(e) == "error" \in e.fields

\* Object i of the body is an upload larger than the part size.
Oversized(i) == body.operation = "upload" /\ body.objects[i].size > PART_SIZE

\* Sub-task i took the multipart strategy: its first sign call is the initiate's.
MultipartChosen(i) ==
  /\ Len(tasks[i].signs) >= 1
  /\ tasks[i].signs[1].method = "POST"
  /\ tasks[i].signs[1].query = UploadsQuery

\* Sub-task i went through the fetch call of the initiate.
InitiateRan(i) == tasks[i].initUrl # NoUrl

\* C1: a batch whose Authorization header and JSON body are accepted is not
\* answered before every sub-task has settled, no sub-task is ever rejected,
\* and the answer is HTTP 200 with one entry per object, whichever sub-tasks
\* failed.
C1_BatchAlways200 ==
  BodyAccepted =>
    /\ \A i \in 1..Len(tasks) : tasks[i].pc # "rejected"
    /\ pc = "objects" => status = 0
    /\ pc = "done" =>
         /\ status = 200
         /\ Len(response) = Len(body.objects)
         /\ \A i \in 1..Len(tasks) : tasks[i].pc = "done" /\ response[i].fields # {}

\* A 200 answer to two objects that both failed, one in the initiate and one in
\* a sign call.
C1_Witness ==
  /\ Answered200
  /\ Len(response) = 2
  /\ \A i \in 1..2 : HasError(response[i])
  /\ \E i \in 1..2 : InitiateRan(i)
  /\ \E i \in 1..2 : response[i].error = SignError.message

\* C2: in a 200 response the objects array is as long as the request's, and
\* entry i has the oid and the size of request entry i.
C2_PositionalEntries ==
  Answered200 =>
    /\ Len(response) = Len(body.objects)
    /\ \A i \in 1..Len(response) :
         /\ response[i].oid = body.objects[i].oid
         /\ response[i].size = body.objects[i].size
         /\ {"oid", "size"} \subseteq response[i].fields

\* A 200 response whose second object settled first, the first object failed
\* and the second did not.
C2_Witness ==
  /\ Answered200
  /\ finished = <<2, 1>>
  /\ response[1].oid # response[2].oid
  /\ HasError(response[1])
  /\ HasActions(response[2])

ExactlyOneOf(e) == HasActions(e) # HasError(e)

\* The entry the multipart path builds has exactly one of actions and error.
MultipartEntriesOneOf ==
  \A obj \in ObjectPool :
    ExactlyOneOf(MultipartEntry(obj, UploadId1, <<NoUrl, NoUrl>>, NoUrl, 2, EXPIRY))

\* C3: every entry of a 200 response has exactly one of actions and error; so
\* has the entry the multipart path builds for any object.
C3_ActionsXorError ==
  /\ Answered200 => \A i \in 1..Len(response) : ExactlyOneOf(response[i])
  /\ \A i \in 1..Len(tasks) : tasks[i].pc = "done" => ExactlyOneOf(tasks[i].entry)
  /\ MultipartEntriesOneOf

\* A 200 response with an entry that failed in the initiate and an entry with
\* actions.
C3_Witness ==
  /\ Answered200
  /\ \E i \in 1..Len(response) : HasError(response[i]) /\ InitiateRan(i)
  /\ \E i \in 1..Len(response) : HasActions(response[i])

\* ceil(size / PART_SIZE), from its definition.
CeilParts(size) ==
  CHOOSE n \in 0..(size \div PART_SIZE + 1) :
    n * PART_SIZE >= size /\ (n - 1) * PART_SIZE < size

\* The part hrefs of an entry: its actions tagged with a part number.
PartHrefs(e) == {n \in 1..Len(e.actions) : e.actions[n].partNumber >= 1}

\* C4: for every object of an upload batch with size > PART_SIZE the response
\* has ceil(size / PART_SIZE) part hrefs, which is the reported partCount, and
\* the reported partSize is PART_SIZE. Stated for the objects whose initiate
\* URL was signed, so that no failure of the signer stands in the way.
C4_PartCountIssued ==
  (Answered200 /\ body.operation = "upload") =>
    \A i \in 1..Len(response) :
      (body.objects[i].size > PART_SIZE /\ InitiateRan(i)) =>
        /\ Cardinality(PartHrefs(response[i])) = CeilParts(body.objects[i].size)
        /\ response[i].multipart.partCount = CeilParts(body.objects[i].size)
        /\ response[i].multipart.partSize = PART_SIZE

\* The multipart strategy is taken exactly for the oversized uploads, and any
\* other object has exactly one sign call, a PUT for upload and a GET for
\* download, and no multipart metadata.
C5_StrategyAndOneCall(i) ==
  /\ MultipartChosen(i) <=> Oversized(i)
  /\ ~Oversized(i) =>
       /\ Len(tasks[i].signs) = 1
       /\ tasks[i].signs[1].method = (IF body.operation = "upload" THEN "PUT" ELSE "GET")
       /\ tasks[i].signs[1].query = <<>>
       /\ "multipart" \notin tasks[i].entry.fields

\* The entry has a single href, signed for the method of the operation.
SingleHref(i) ==
  /\ Len(tasks[i].entry.actions) = 1
  /\ tasks[i].entry.actions[1].key = body.operation
  /\ tasks[i].entry.actions[1].href.method =
       (IF body.operation = "upload" THEN "PUT" ELSE "GET")

\* C5 as stated: the multipart strategy is taken exactly when the operation is
\* upload and size > PART_SIZE; in every other case one URL is signed, PUT or
\* GET, and the entry has a single href and no multipart metadata.
C5_SingleHrefAlways ==
  BodyAccepted =>
    \A i \in 1..Len(tasks) :
      /\ C5_StrategyAndOneCall(i)
      /\ (~Oversized(i) /\ tasks[i].pc = "done") => SingleHref(i)

\* C5 as amended: the same, except that the entry has the single href only
\* when the one sign call succeeded; when it failed the entry is an error
\* with the signer's message and no href.
C5_SingleHrefUnlessSignFails ==
  BodyAccepted =>
    \A i \in 1..Len(tasks) :
      /\ C5_StrategyAndOneCall(i)
      /\ (~Oversized(i) /\ tasks[i].pc = "done") =>
           \/ HasActions(tasks[i].entry) /\ SingleHref(i)
           \/ /\ HasError(tasks[i].entry)
              /\ tasks[i].entry.error = SignError.message
              /\ tasks[i].entry.actions = <<>>

\* A 200 response to a download with an object above the part size answered
\* with a single GET href, and an upload-sized sibling whose sign call failed.
C5_Witness ==
  /\ Answered200
  /\ body.operation = "download"
  /\ \E i \in 1..Len(tasks) :
       body.objects[i].size > PART_SIZE /\ HasActions(response[i]) /\ SingleHref(i)
  /\ \E i \in 1..Len(tasks) : HasError(response[i])

\* C6: a POST to a batch path with no Authorization header is answered 401;
\* the body is never read, no sub-task exists, so no sign call and no backend
\* request is made.
C6_NoHeader401 ==
  (~req.hasAuth /\ BatchPost) =>
    /\ pc \in {"start", "done"}
    /\ body.kind = "unread"
    /\ tasks = <<>>
    /\ pc = "done" => status = 401

\* Such a request, answered.
C6_Witness == BatchPost /\ ~req.hasAuth /\ pc = "done" /\ status = 401

\* The header values of the causes C7 lists: another scheme, no payload, an
\* empty payload, a payload that is no base64, no colon, a control character.
MalformedAuths ==
  {AuthBearer, AuthNoPayload, AuthEmptyPayload, AuthBadBase64, AuthNoColon,
   AuthControl, AuthDel}

\* C7: a POST to a batch path whose Authorization header is malformed in one
\* of the listed ways is answered 400.
C7_Malformed400 ==
  (BatchPost /\ req.hasAuth /\ req.auth \in MalformedAuths /\ pc = "done") => status = 400

\* C8: the answer to GET / is 302 to the homepage, to any other method on / is
\* 405 with Allow: GET, to any other path not ending in /objects/batch is 404
\* for every method, to a non-POST method on a batch path is 405 with Allow:
\* POST; whatever the Authorization header, and without reading the body.
C8_Routing ==
  LET root == req.pathname = <<SLASH>>
      batch == EndsWith(req.pathname, BatchSuffix)
  IN (pc = "done" /\ (root \/ ~batch \/ req.method # "POST")) =>
       /\ body.kind = "unread" /\ tasks = <<>>
       /\ (root /\ req.method = "GET") =>
            status = 302 /\ location = HOMEPAGE /\ allow = ""
       /\ (root /\ req.method # "GET") => status = 405 /\ allow = "GET"
       /\ (~root /\ ~batch) => status = 404 /\ allow = ""
       /\ (~root /\ batch /\ req.method # "POST") => status = 405 /\ allow = "POST"

\* A PUT to a path that is neither / nor a batch path, with a header that is
\* no base64, answered 404.
C8_Witness ==
  /\ pc = "done"
  /\ req.method = "PUT"
  /\ req.pathname = PathOf(<<SegB>>)
  /\ req.auth = AuthBadBase64
  /\ status = 404

\* The number a decimal text stands for.
RECURSIVE DecimalValue(_)
DecimalValue(s) ==
  IF Len(s) = 0 THEN 0
  ELSE DecimalValue(SubSeq(s, 1, Len(s) - 1)) * 10 + (s[Len(s)] - 48)

\* The expiry C9 states: the expiry=... override of the request's path when
\* there is one, else env.EXPIRY when it is set, else 3600.
ClaimedExpiry ==
  IF ExpiryKey \in DOMAIN s3Options THEN DecimalValue(s3Options[ExpiryKey])
  ELSE IF env.hasEXPIRY THEN env.EXPIRY
  ELSE 3600

\* C9: every action of a 200 response reports the expiry chosen by that
\* precedence.
C9_ExpiryPrecedence ==
  Answered200 =>
    \A i \in 1..Len(response) :
      \A n \in 1..Len(response[i].actions) :
        response[i].actions[n].expires_in = ClaimedExpiry

\* C10: every request the gateway puts on the network is the initiate POST
\* (query uploads=) of an oversized upload object, at most one per object, and
\* none is a completion request; an object that is not an oversized upload
\* sends nothing.
C10_OnlyInitiateRequests ==
  \A i \in 1..Len(tasks) :
    /\ Len(tasks[i].sent) <= 1
    /\ \A n \in 1..Len(tasks[i].sent) :
         /\ tasks[i].sent[n].method = "POST"
         /\ tasks[i].sent[n].url.query = UploadsQuery
         /\ tasks[i].sent[n].url = tasks[i].initUrl
    /\ tasks[i].sent # <<>> => Oversized(i)

\* A 200 response to a batch with an oversized upload whose initiate went
\* through its fetch call.
C10_Witness ==
  /\ Answered200
  /\ \E i \in 1..Len(tasks) : Oversized(i) /\ InitiateRan(i)

C12_CredentialsFromBasicAuth ==
  \A i \in 1..Len(tasks) :
    tasks[i].signs # <<>> =>
      /\ s3Options[AccessKeyIdKey] = parseAuthorization(req).user
      /\ s3Options[SecretAccessKeyKey] = parseAuthorization(req).pass
      /\ \A n \in 1..Len(tasks[i].entry.actions) :
           /\ tasks[i].entry.actions[n].href.accessKeyId = parseAuthorization(req).user
           /\ tasks[i].entry.actions[n].href.secretAccessKey = parseAuthorization(req).pass

\* C13: for every oversized upload object whose initiate URL was signed, with
\* a storage backend that would answer the initiate POST with success and the
\* upload id "id1": the initiate step has put that POST on the network at the
\* signed uploads= URL, and the object's entry in the response is an action
\* set, upload actions for the parts and a verify action for the completion,
\* with multipart metadata whose uploadId is "id1", and no error.
C13_InitiatePostedAndEntryBuilt ==
  \A i \in 1..Len(tasks) :
    (Oversized(i) /\ InitiateRan(i)) =>
      /\ tasks[i].sent = <<BackendRequest("POST", tasks[i].initUrl)>>
      /\ tasks[i].initUrl.query = UploadsQuery
      /\ Answered200 =>
           /\ HasActions(response[i])
           /\ ~HasError(response[i])
           /\ "multipart" \in response[i].fields
           /\ response[i].multipart.uploadId = UploadId1
           /\ PartHrefs(response[i]) # {}
           /\ \E n \in 1..Len(response[i].actions) : response[i].actions[n].key = "verify"

\* C14: every oversized upload object whose initiate URL was signed goes
\* through Initiated, PartURLsIssued and CompletionURLIssued in that order: no
\* part URL is signed while the sub-task has no upload id, the completion URL
\* is signed only when every one of the partCount part-signing calls has
\* finished, and the sub-task that has finished made, in this order, the sign
\* call of the initiate, partCount sign calls for the parts and the sign call
\* of the completion.
C14_StagesInOrder ==
  \A i \in 1..Len(tasks) :
    (Oversized(i) /\ InitiateRan(i)) =>
      LET t == tasks[i]
          n == CeilParts(body.objects[i].size)
      IN /\ Len(t.signs) > 1 => t.uploadId # <<>>
         /\ Len(t.signs) > 1 + t.partCount =>
              /\ t.pending = {}
              /\ \A k \in 1..Len(t.partUrls) : t.partUrls[k] # NoUrl
         /\ t.pc = "done" =>
              /\ Len(t.signs) = n + 2
              /\ t.signs[1].query = UploadsQuery
              /\ \A k \in 1..n : t.signs[1 + k].method = "PUT"
              /\ t.signs[n + 2].method = "POST"
              /\ t.signs[n + 2].query = UploadIdEq \o t.uploadId \o Amp

\* The entry object j gets on the single-URL path when no other object
\* interferes: the signed URL, or the error of its own sign call.
OwnSingleEntries(j) ==
  LET obj == body.objects[j]
      op == body.operation
  IN { SingleEntry(obj, op,
         sign(s3Options, bucket, KeyOf(prefix, obj.oid), SingleMethod(op), <<>>), expires_in),
       ErrorEntry(obj, SignError) }

\* C15: when the initiate of an object fails after its fetch call settled,
\* the object's sub-task ends with an error entry that has a message and no
\* actions, it has made no sign call after the initiate's (no part URL, no
\* completion URL), the response carries that entry, and in the response
\* every sibling on the single-URL path has the entry it would have alone.
C15_InitiateFailureIsolated ==
  \A i \in 1..Len(tasks) :
    tasks[i].initiateFailed =>
      /\ tasks[i].pc = "done"
      /\ HasError(tasks[i].entry) /\ ~HasActions(tasks[i].entry)
      /\ tasks[i].entry.error # <<>>
      /\ tasks[i].entry.actions = <<>>
      /\ tasks[i].entry.multipart = NoMultipart
      /\ Len(tasks[i].signs) = 1
      /\ tasks[i].partUrls = <<>>
      /\ Answered200 =>
           /\ response[i] = tasks[i].entry
           /\ \A j \in 1..Len(tasks) :
                (j # i /\ ~MultipartChosen(j)) => response[j] \in OwnSingleEntries(j)

\* A 200 response to two objects: the initiate of the first failed, the second
\* has its signed URL.
C15_Witness ==
  /\ Answered200
  /\ Len(response) = 2
  /\ tasks[1].initiateFailed
  /\ HasError(response[1])
  /\ HasActions(response[2])
  /\ response[2].actions[1].href # NoUrl

\* The upload actions of entry e are tagged 1..n, each once and in increasing
\* order, and the href of the action tagged k is the URL signed as a PUT with
\* partNumber=k and the entry's upload id for the object obj.
PartsTagged(e, obj, n) ==
  LET ups == SelectSeq(e.actions, LAMBDA a : a.key = "upload")
  IN /\ Len(ups) = n
     /\ \A k \in 1..Len(ups) :
          /\ ups[k].partNumber = k
          /\ ups[k].href.method = "PUT"
          /\ ups[k].href.query =
               PartNumberEq \o NumText(k) \o AmpUploadIdEq \o e.multipart.uploadId \o Amp
          /\ ups[k].href =
               getSignedUrlForPart(s3Options, bucket, KeyOf(prefix, obj.oid),
                                   e.multipart.uploadId, k)

Targeted == pc = "body" \/ body.kind # "unread"

HasEq(segment) == \E n \in 1..Len(segment) : segment[n] = EQ

\* The length of the leading run of segments that contain "=".
LeadCount(segs) ==
  CHOOSE k \in 0..Len(segs) :
    /\ \A j \in 1..k : HasEq(segs[j])
    /\ k < Len(segs) => ~HasEq(segs[k + 1])

\* The text before and after the first "=" of a segment that has one.
KeyText(segment) ==
  SubSeq(segment, 1, (CHOOSE n \in 1..Len(segment) :
                        segment[n] = EQ /\ \A m \in 1..(n - 1) : segment[m] # EQ) - 1)
ValText(segment) == SubSeq(segment, Len(KeyText(segment)) + 2, Len(segment))

\* What the path p targets, read off its segments before the trailing
\* /objects/batch: the overrides of its leading run of segments with "=", the
\* first segment without "=" and the rest joined by "/". roundTrip says that
\* the segments, followed by objects and batch, spell p.
PathTarget(p) ==
  LET segs == Segments(p)
      k == LeadCount(segs)
  IN [roundTrip |-> PathOf(segs \o <<SegObjects, SegBatch>>) = p,
      overrides |-> [key \in {KeyText(segs[j]) : j \in 1..k} |->
                       ValText(segs[CHOOSE j \in 1..k : KeyText(segs[j]) = key])],
      hasBucket |-> k < Len(segs),
      bucket |-> IF k < Len(segs) THEN segs[k + 1] ELSE <<>>,
      prefix |-> IF k < Len(segs) THEN Join(SubSeq(segs, k + 2, Len(segs)), SLASH) ELSE <<>>]

PathTargets == [p \in BatchPathnames |-> PathTarget(p)]

\* C17: with segs the path segments before the trailing /objects/batch, the
\* leading run of segments containing "=" is what is written into the signing
\* options and nothing after it is; the first segment without "=" is the
\* bucket; the segments after it, joined by "/", are the prefix, those with
\* "=" included; and every object is signed for that bucket under the key
\* prefix/oid. Bucket and prefix are functions of the path alone.
C17_PathTargeting ==
  Targeted =>
    LET t == PathTargets[req.pathname]
    IN /\ t.roundTrip
       /\ DOMAIN s3Options = {AccessKeyIdKey, SecretAccessKeyKey} \cup DOMAIN t.overrides
       /\ \A key \in DOMAIN t.overrides : s3Options[key] = t.overrides[key]
       /\ t.hasBucket =>
            /\ bucket = t.bucket
            /\ prefix = t.prefix
            /\ \A i \in 1..Len(tasks) : \A n \in 1..Len(tasks[i].signs) :
                 /\ tasks[i].signs[n].bucket = t.bucket
                 /\ tasks[i].signs[n].path = t.prefix \o <<SLASH>> \o body.objects[i].oid

\* The path /region=x/b/k=v/objects/batch: region is an override, b the
\* bucket, k=v the prefix and no override, and an object a is signed as k=v/a.
C17_Witness ==
  /\ pc = "objects"
  /\ req.pathname = PathOf(<<SegRegion, SegB, SegKV, SegObjects, SegBatch>>)
  /\ bucket = SegB
  /\ prefix = SegKV
  /\ RegionKey \in DOMAIN s3Options
  /\ <<107>> \notin DOMAIN s3Options
  /\ \E i \in 1..Len(tasks) :
       tasks[i].signs # <<>> /\ tasks[i].signs[1].path = SegKV \o <<SLASH>> \o OidA

\* C18: a failure of the top-level processing of a batch request whose
\* Authorization header was accepted ends in one response chosen by class: a
\* malformed body (a text that is no JSON, JSON without an objects array, an
\* objects array holding a null) gives 400, a path segment that cannot be
\* decoded gives 500, and none of them gives 200.
C18_TopLevelFailureStatus ==
  (pc = "done" /\ BatchPost /\ ~parseAuthorization(req).threw /\ ~BodyAccepted) =>
    /\ status # 200
    /\ response = <<>>
    /\ body.kind = "unread" => status = 500
    /\ body.kind # "unread" => status = 400

\* The text a Basic-Auth header carries: its payload after "Basic ", decoded
\* from base64 and UTF-8 and normalised.
DecodedAuth(r) ==
  Normalize(TextDecode(atob(SubSeq(r.auth, Len(BasicStr) + 2, Len(r.auth))).bytes))

\* C19: for every batch request whose Basic-Auth payload is accepted, user has
\* no colon, user + ":" + pass is the decoded text exactly (so user is what
\* precedes the first colon, pass what follows it, further colons included,
\* and either may be empty), and these two are the credentials the handler
\* goes on with when the path names no access key. Stated where the handler
\* has just parsed the header and the path.
C19_SplitAtFirstColon ==
  (pc = "body" /\ BatchPost /\ ~parseAuthorization(req).threw) =>
    LET a == parseAuthorization(req)
        d == DecodedAuth(req)
    IN /\ a.user \o <<COLON>> \o a.pass = d
       /\ \A n \in 1..Len(a.user) : a.user[n] # COLON
       /\ s3Options[SecretAccessKeyKey] = a.pass
       /\ (\A j \in 1..Len(Segments(req.pathname)) :
             Segments(req.pathname)[j] # SegAccess)
            => s3Options[AccessKeyIdKey] = a.user

\* The payload a:b:c gave the user a and the password b:c; the payload :p gave
\* an empty user.
C19_Witness ==
  /\ pc = "body"
  /\ \/ /\ req.auth = AuthABC
        /\ s3Options[AccessKeyIdKey] = <<97>>
        /\ s3Options[SecretAccessKeyKey] = <<98, COLON, 99>>
     \/ /\ req.auth = AuthEmptyUser
        /\ s3Options[AccessKeyIdKey] = <<>>
        /\ s3Options[SecretAccessKeyKey] = <<112>>

\* C20: every URL handed out in an entry was signed with the validity that
\* the entry reports next to it: the expiry given to the signer for the href
\* of an action is the action's expires_in (signerExpires is 0 when the signer
\* was given no expiry).
C20_SignedWithReportedExpiry ==
  \A i \in 1..Len(tasks) :
    tasks[i].pc = "done" =>
      \A n \in 1..Len(tasks[i].entry.actions) :
        /\ tasks[i].entry.actions[n].expires_in = expires_in
        /\ tasks[i].entry.actions[n].href.signerExpires = tasks[i].entry.actions[n].expires_in
====
